---- MODULE Spec2Model ----
(***************************************************************************)
(* The webhook receiver of examples/webhooks/python-flask/server.py, and   *)
(* the documentation script scripts/add-frontmatter.py (variable docs).    *)
(*                                                                         *)
(* State: the module-level set processed_deliveries and, for every request *)
(* thread of the (threaded) Flask server, the position of webhook() and    *)
(* its local variables.  One action per statement of webhook() that reads  *)
(* or writes shared state or decides a response.  The variables            *)
(* insertion_order, order0, called, trail, invoked, evictions, succeeded,  *)
(* previous and nextId are history variables: they record what happened    *)
(* and are never read by a guard or by the program state an action         *)
(* computes.                                                               *)
(***************************************************************************)
EXTENDS Integers, Sequences, FiniteSets, TLC

(* ------------------------------ bounds -------------------------------- *)

\* The ledger capacity of server.py:128 (1000 there), scaled down.
Capacity == 2

\* The number of identifiers one clean-up takes, server.py:129 (100 there),
\* scaled down.
EvictBatch == 1

\* Requests received in one run of the sequential specification.
MaxSeqRequests == 5

\* Requests received in one run of the concurrent specification.
MaxConcRequests == 4

\* Requests received in one run of the life-cycle specification, and the
\* number of times the server process is started in it.
MaxLifeRequests == 3
MaxStarts == 2

\* add-frontmatter.py: the longest file content drawn, in characters, and
\* the number of times process_directory is run over the directory.
MaxLen == 4
MaxPasses == 2

\* Request threads: Flask's development server handles every request on a
\* thread of its own.
Threads == {"t1", "t2"}

\* The thread of a server that handles one request at a time.
MainThread == "t1"

\* Delivery identifiers are opaque non-empty strings; enough of them to
\* overflow the ledger.  The empty string is NoId.
Ids == 1 .. (Capacity + 2)
NoId == 0

(* ------------------------- request contents --------------------------- *)

WEBHOOK_SECRET == "abc"
OtherSecret == "wrong-secret"

RequiredKeys == {"event", "timestamp", "data"}

\* Raw request bodies, by name.  Of a body the model keeps what json.loads
\* and the `in` tests of the handler read:
\*   utf8    the bytes decode as UTF-8
\*   syntax  the text is well-formed JSON
\*   type    the type of the parsed value
\*   has     the required names n for which `n in value` is true: the keys of
\*           an object, the elements of an array, the substrings of a string
\*   member  the type of value['data'], "none" where there is no such member
\*   event   value['event'], "" where there is no such member
BodyTable ==
    [ok      |-> [utf8 |-> TRUE,  syntax |-> TRUE,  type |-> "object",
                  has |-> {"event", "timestamp", "data"}, member |-> "object",
                  event |-> "clip.approved"],
     datanum |-> [utf8 |-> TRUE,  syntax |-> TRUE,  type |-> "object",
                  has |-> {"event", "timestamp", "data"}, member |-> "number",
                  event |-> "clip.approved"],
     nodata  |-> [utf8 |-> TRUE,  syntax |-> TRUE,  type |-> "object",
                  has |-> {"event", "timestamp"}, member |-> "none",
                  event |-> "clip.approved"],
     badjson |-> [utf8 |-> TRUE,  syntax |-> FALSE, type |-> "none",
                  has |-> {}, member |-> "none",
                  event |-> ""],
     badutf8 |-> [utf8 |-> FALSE, syntax |-> FALSE, type |-> "none",
                  has |-> {}, member |-> "none",
                  event |-> ""],
     null    |-> [utf8 |-> TRUE,  syntax |-> TRUE,  type |-> "null",
                  has |-> {}, member |-> "none",
                  event |-> ""],
     string  |-> [utf8 |-> TRUE,  syntax |-> TRUE,  type |-> "string",
                  has |-> {"event", "timestamp", "data"}, member |-> "none",
                  event |-> ""]]

Bodies == DOMAIN BodyTable

Events == {"", "clip.approved", "custom.event"}

\* request.headers.get('X-Webhook-Replay') when the header is absent, and
\* the values a sender may give it.
NoHeader == "<None>"
ReplayHeaders == {NoHeader, "true", "false"}

\* The event types process_webhook_event has a branch for (lines 50-64).
KnownEvents == {"clip.submitted", "clip.approved", "clip.rejected"}

\* os.environ.get('WEBHOOK_SECRET') when the variable is not set.
Unset == "<None>"

\* What the environment may hold at process start.
EnvSecrets == {Unset, "", WEBHOOK_SECRET}

\* hmac.new(key, msg, sha256).hexdigest(): an injective keyed hash, printed
\* in ASCII hexadecimal digits.
HexHmac(key, msg) == [ascii |-> TRUE, key |-> key, msg |-> msg]

\* Header values that are no digest: the absent header (read as '') and a
\* value holding a non-ASCII character.
EmptySignature == [ascii |-> TRUE, key |-> "", msg |-> ""]
NonAsciiSignature == [ascii |-> FALSE, key |-> "", msg |-> ""]

\* The signatures a sender may attach to body b.
SignaturesFor(b) ==
    {EmptySignature, NonAsciiSignature,
     HexHmac(WEBHOOK_SECRET, b), HexHmac(OtherSecret, b),
     HexHmac(WEBHOOK_SECRET, IF b = "ok" THEN "badjson" ELSE "ok")}

(* --------------------------- pure functions --------------------------- *)

\* A comparison that finds any two ASCII strings equal.
CompareDigest_Always(a, b) ==
    IF ~a.ascii \/ ~b.ascii THEN "raise" ELSE "true"

\* hmac.compare_digest on two str: raises TypeError unless both are ASCII.
CompareDigest(a, b) ==
    IF ~a.ascii \/ ~b.ascii THEN "raise"
    ELSE IF a = b THEN "true" ELSE "false"

\* The digest is compared without regard to the key it was made with.
verify_webhook_signature_AnyKey(payload, signature, secret) ==
    IF ~signature.ascii THEN "raise"
    ELSE IF signature.msg = payload /\ signature # EmptySignature
         THEN "true" ELSE "false"

verify_webhook_signature(payload, signature, secret) ==
    LET expected_signature == HexHmac(secret, payload)
    IN  CompareDigest(signature, expected_signature)

\* json.loads(payload) on bytes: UnicodeDecodeError (a ValueError that is no
\* JSONDecodeError) for undecodable bytes, JSONDecodeError for bad syntax.
JsonLoads(payload) ==
    LET b == BodyTable[payload]
    IN  IF ~b.utf8 THEN [outcome |-> "UnicodeDecodeError", value |-> b]
        ELSE IF ~b.syntax THEN [outcome |-> "JSONDecodeError", value |-> b]
        ELSE [outcome |-> "ok", value |-> b]

\* `name in value`: TypeError for a value that is no container.
Contains(value, name) ==
    IF value.type \in {"null", "number"} THEN "raise"
    ELSE IF name \in value.has THEN "true" ELSE "false"

\* The test of line 120, evaluated left to right with short-circuit `or`.
StructureCheck(value) ==
    IF value.type \in {"null", "number"} THEN "raise"
    ELSE IF \E n \in RequiredKeys : Contains(value, n) = "false"
         THEN "invalid" ELSE "valid"

\* The branch of lines 50-67 that runs for an event.
Branch(event) == IF event \in KnownEvents THEN event ELSE "unknown"

\* process_webhook_event(event, data, delivery_id), lines 43-69, where
\* member is the type of its argument `data`: json.dumps prints any parsed
\* value; the branch of a known event calls data.get, an AttributeError
\* unless data is a dict; an unknown event is only printed.
process_webhook_event(event, member) ==
    IF event \in KnownEvents /\ member # "object" THEN "raised" ELSE "returned"

Remove(s, x) == SelectSeq(s, LAMBDA y : y # x)

Min(a, b) == IF a < b THEN a ELSE b

(* ------------------------ add-frontmatter.py -------------------------- *)

\* A file is its characters: a dash, the two line-end characters, and any
\* other character.
Chars == {"-", "\n", "\r", "x"}

Contents == UNION {[1 .. n -> Chars] : n \in 0 .. MaxLen}

\* sorted(dir_path.glob('*.md')), line 84.
MdFiles == <<"a.md", "index.md", "z.md">>

MdNames == {MdFiles[i] : i \in 1 .. Len(MdFiles)}

StartsWith(s, p) == Len(s) >= Len(p) /\ SubSeq(s, 1, Len(p)) = p

\* Line 13: content.startswith('---\n').
has_frontmatter(content) == StartsWith(content, <<"-", "-", "-", "\n">>)

\* open(filepath, 'r', encoding='utf-8').read(), lines 28-29: text mode
\* with universal newlines turns '\r\n' and a lone '\r' into '\n'.
RECURSIVE ReadText(_)
ReadText(bytes) ==
    IF bytes = <<>> THEN <<>>
    ELSE IF Head(bytes) = "\r"
    THEN <<"\n">> \o ReadText(IF Len(bytes) >= 2 /\ bytes[2] = "\n"
                               THEN SubSeq(bytes, 3, Len(bytes))
                               ELSE Tail(bytes))
    ELSE <<Head(bytes)>> \o ReadText(Tail(bytes))

\* f.write(new_content), lines 90-91: text mode writes '\n' as os.linesep,
\* which is '\n' on the POSIX system the script's docs_path belongs to.
WriteText(text) == text

\* The block of lines 59-70: '---', a newline, the lines title to
\* last_reviewed (here one character, "m"), '---' and two newlines.
Frontmatter == <<"-", "-", "-", "\n", "m", "-", "-", "-", "\n", "\n">>

\* generate_frontmatter, lines 23-72, as a function of the file.
generate_frontmatter(bytes) ==
    LET content == ReadText(bytes)
    IN  IF has_frontmatter(content)
        THEN [none |-> TRUE, text |-> <<>>]
        ELSE [none |-> FALSE, text |-> Frontmatter \o content]

\* The directories the script is run on: any content for a.md, and for the
\* two other files one content without and one with frontmatter.
FewContents == {<<"x">>, <<"-", "-", "-", "\n", "x">>}

Directories ==
    {[f \in MdNames |-> IF f = "a.md" THEN a ELSE IF f = "index.md" THEN i
                        ELSE z] :
        a \in Contents, i \in FewContents, z \in FewContents}

(* ------------------------------- state -------------------------------- *)

VARIABLES
    processed_deliveries,  \* the set of line 20
    insertion_order,       \* history: its members, oldest insert first
    pc,                    \* per thread: the next statement of webhook()
    req,                   \* per thread: payload and headers (lines 77-80)
    data,                  \* per thread: the parsed body (line 114)
    to_delete,             \* per thread: what is left of line 129's list
    resp,                  \* per thread: the response returned
    order0,                \* history: insertion_order at the request's start
    called,                \* history: the request ran process_webhook_event
    is_replay,             \* per thread: the local is_replay of line 81
    handled,               \* history: per identifier, how the handler ended
    trail,                 \* history: per thread, what the request has done
    invoked,               \* history: per id, how often process_webhook_event ran
    evictions,             \* history: per id, how often clean-up removed it
    succeeded,             \* history: ids of requests answered 'success'
    nextId,                \* history: the smallest identifier not yet used
    budget,                \* requests the run may still receive
    process,               \* the server process: phase and exit status
    webhook_secret,        \* the module global WEBHOOK_SECRET (line 13)
    generation,            \* how many times the server process was started
    previous,              \* history: identifiers earlier processes answered
                           \* 'success'
    health,                \* 'processed_deliveries' of the last /health answer
    docs,                  \* add-frontmatter.py: the directory and the loop
    probe                  \* a call of verify_webhook_signature on its own

vars == <<processed_deliveries, insertion_order, pc, req, data, to_delete,
          resp, order0, called, is_replay, handled, trail, invoked,
          evictions, succeeded, nextId,
          budget, process, webhook_secret, generation, previous, health,
          docs, probe>>

\* What no request handler writes.
fixed ==
    <<process, webhook_secret, generation, previous, health, docs, probe>>

\* No /health answer yet.
NoHealth == -1

NoTrail ==
    [hmac |-> FALSE, recorded |-> FALSE, handler |-> "none", branch |-> "none"]
NoProbe == [payload |-> "ok", signed |-> "ok", secret |-> "", result |-> "none"]

\* The script has not been run.
NoDocs ==
    [files |-> [f \in MdNames |-> <<>>], original |-> [f \in MdNames |-> <<>>],
     todo |-> <<>>, pass |-> 0, updated |-> {}]

\* The calls verify_webhook_signature(payload, sig, secret) in which sig is
\* the hex HMAC of the body `signed` under the same secret.
Probes ==
    [payload : Bodies, signed : Bodies, secret : {WEBHOOK_SECRET, OtherSecret},
     result : {"none"}]

NoReq == [payload |-> "ok", signature |-> EmptySignature, event |-> "",
          delivery_id |-> NoId]
NoData == BodyTable["badjson"]
NoResp == [status |-> 0, kind |-> "none"]

Response(status, kind) == [status |-> status, kind |-> kind]

\* The requests a sender may make next: any body, any of the signatures for
\* it, any event header, and a delivery identifier that is absent, one used
\* before, or the next unused one (identifiers are opaque, so which unused
\* one makes no difference).
RequestsOver(B) ==
    UNION {{[payload |-> b, signature |-> s, event |-> e, delivery_id |-> d] :
               s \in SignaturesFor(b), e \in Events,
               d \in {NoId} \cup {i \in Ids : i <= nextId}} : b \in B}

Requests == RequestsOver(Bodies)

\* The requests of the long sequential runs: every body but the one whose
\* 'data' is a number, which differs from "ok" only in the handler raising.
SeqRequests == RequestsOver(Bodies \ {"datanum"})

\* The requests of the life-cycle specification: a body for every answer
\* webhook() can give, the handler raising included.
LifeRequests == RequestsOver(Bodies \ {"string", "badutf8"})

\* The requests of the concurrent specification: fewer bodies and headers.
ConcRequests ==
    {[payload |-> b, signature |-> HexHmac(k, b), event |-> "clip.approved",
      delivery_id |-> d] :
        b \in {"ok", "badjson"}, k \in {WEBHOOK_SECRET, OtherSecret},
        d \in {i \in Ids : i <= nextId}}

InitCommon ==
    /\ processed_deliveries = {}
    /\ insertion_order = <<>>
    /\ pc = [t \in Threads |-> "idle"]
    /\ req = [t \in Threads |-> NoReq]
    /\ data = [t \in Threads |-> NoData]
    /\ to_delete = [t \in Threads |-> {}]
    /\ resp = [t \in Threads |-> NoResp]
    /\ order0 = [t \in Threads |-> <<>>]
    /\ called = [t \in Threads |-> FALSE]
    /\ is_replay = [t \in Threads |-> FALSE]
    /\ handled = [d \in Ids |-> {}]
    /\ trail = [t \in Threads |-> NoTrail]
    /\ invoked = [d \in Ids |-> 0]
    /\ evictions = [d \in Ids |-> 0]
    /\ succeeded = {}
    /\ nextId = 1
    /\ process = [phase |-> "starting", exit_status |-> -1]
    /\ webhook_secret \in EnvSecrets
    /\ generation = 1
    /\ previous = {}
    /\ health = NoHealth

Init ==
    /\ InitCommon
    /\ probe = NoProbe
    /\ docs = NoDocs
    /\ budget = MaxConcRequests

SeqInit ==
    /\ InitCommon
    /\ probe = NoProbe
    /\ docs = NoDocs
    /\ budget = MaxSeqRequests

(* ---------------------------- start-up -------------------------------- *)

\* Start-up without the test of line 15: the routes are served whatever the
\* environment holds.
Startup_ServesAnyway ==
    /\ process.phase = "starting"
    /\ process' = [phase |-> "serving", exit_status |-> -1]
    /\ UNCHANGED <<processed_deliveries, insertion_order, pc, req, data,
                   to_delete, resp, order0, called, is_replay, handled, trail,
                   invoked, evictions,
                   succeeded, nextId, budget, webhook_secret, generation,
                   previous, health, docs, probe>>

\* Lines 13-17: the module reads the secret and exits with status 1 when it
\* is unset or empty; otherwise the routes are registered and served.
Startup ==
    /\ process.phase = "starting"
    /\ process' = IF webhook_secret \in {Unset, ""}
                  THEN [phase |-> "exited", exit_status |-> 1]
                  ELSE [phase |-> "serving", exit_status |-> -1]
    /\ UNCHANGED <<processed_deliveries, insertion_order, pc, req, data,
                   to_delete, resp, order0, called, is_replay, handled, trail,
                   invoked, evictions,
                   succeeded, nextId, budget, webhook_secret, generation,
                   previous, health, docs, probe>>

(* ------------------------- POST /webhook ------------------------------ *)

Finish(t, status, kind) ==
    /\ resp' = [resp EXCEPT ![t] = Response(status, kind)]
    /\ pc' = [pc EXCEPT ![t] = "done"]

Goto(t, label) ==
    /\ pc' = [pc EXCEPT ![t] = label]
    /\ resp' = resp

\* Lines 77-81: a request arrives on an idle thread; h is its
\* X-Webhook-Replay header.
Accept(t, r, h) ==
    /\ process.phase = "serving"
    /\ pc[t] = "idle"
    /\ budget > 0
    /\ req' = [req EXCEPT ![t] = r]
    /\ is_replay' = [is_replay EXCEPT ![t] = (h = "true")]
    /\ order0' = [order0 EXCEPT ![t] = insertion_order]
    /\ budget' = budget - 1
    /\ nextId' = IF r.delivery_id = nextId THEN nextId + 1 ELSE nextId
    /\ Goto(t, "headers")
    /\ UNCHANGED <<processed_deliveries, insertion_order, data, to_delete,
                   called, invoked, evictions, succeeded>>
    /\ UNCHANGED trail
    /\ UNCHANGED fixed
    /\ UNCHANGED handled

\* Requests handled concurrently: any idle thread takes the next request.
Receive(t) == \E r \in ConcRequests : Accept(t, r, NoHeader)

\* Requests handled one after another: the next one is taken only when no
\* other is in progress.
SeqReceive(t) ==
    /\ t = MainThread
    /\ \A u \in Threads : pc[u] = "idle"
    /\ \E r \in SeqRequests : Accept(t, r, NoHeader)

\* The same, the sender setting X-Webhook-Replay as it likes.
LifeReceive(t) ==
    /\ t = MainThread
    /\ \A u \in Threads : pc[u] = "idle"
    /\ \E r \in LifeRequests, h \in ReplayHeaders : Accept(t, r, h)

\* Only the signature header is required.
MissingHeaders_SignatureOnly(r) == r.signature = EmptySignature

\* Lines 90-95.
MissingHeaders(r) ==
    \/ r.signature = EmptySignature
    \/ r.event = ""
    \/ r.delivery_id = NoId

\* The header test left out: every request goes on to verification.
CheckHeaders_Skipped(t) ==
    /\ pc[t] = "headers"
    /\ Goto(t, "verify")
    /\ UNCHANGED <<processed_deliveries, insertion_order, req, data,
                   to_delete, order0, called, invoked, evictions, succeeded,
                   nextId, budget>>
    /\ UNCHANGED trail
    /\ UNCHANGED fixed
    /\ UNCHANGED is_replay
    /\ UNCHANGED handled

CheckHeaders(t) ==
    /\ pc[t] = "headers"
    /\ IF MissingHeaders(req[t])
       THEN Finish(t, 400, "missing_headers")
       ELSE Goto(t, "verify")
    /\ UNCHANGED <<processed_deliveries, insertion_order, req, data,
                   to_delete, order0, called, invoked, evictions, succeeded,
                   nextId, budget>>
    /\ UNCHANGED trail
    /\ UNCHANGED fixed
    /\ UNCHANGED is_replay
    /\ UNCHANGED handled

\* The digest covers the delivery identifier too, and the sender's
\* signatures were made for identifier 1: under any other they do not match.
VerifyOutcome_BoundToId(r) ==
    LET v == verify_webhook_signature(r.payload, r.signature, webhook_secret)
    IN  IF v = "true" /\ r.delivery_id # 1 THEN "false" ELSE v

\* Verification left out: every request passes.
VerifyOutcome_Unchecked(r) == "true"

\* Lines 98-105.
VerifyOutcome(r) ==
    verify_webhook_signature(r.payload, r.signature, webhook_secret)

\* The except clause of lines 103-105 answering like the mismatch branch.
VerifySignature_RaiseIs401(t) ==
    /\ pc[t] = "verify"
    /\ LET v == VerifyOutcome(req[t])
       IN  IF v \in {"raise", "false"} THEN Finish(t, 401, "invalid_signature")
           ELSE Goto(t, "duplicate")
    /\ UNCHANGED <<processed_deliveries, insertion_order, req, data,
                   to_delete, order0, called, invoked, evictions, succeeded,
                   nextId, budget>>
    /\ trail' = [trail EXCEPT ![t].hmac = TRUE]
    /\ UNCHANGED fixed
    /\ UNCHANGED is_replay
    /\ UNCHANGED handled

VerifySignature(t) ==
    /\ pc[t] = "verify"
    /\ LET v == VerifyOutcome(req[t])
       IN  IF v = "raise" THEN Finish(t, 500, "verification_error")
           ELSE IF v = "false" THEN Finish(t, 401, "invalid_signature")
           ELSE Goto(t, "duplicate")
    /\ UNCHANGED <<processed_deliveries, insertion_order, req, data,
                   to_delete, order0, called, invoked, evictions, succeeded,
                   nextId, budget>>
    /\ trail' = [trail EXCEPT ![t].hmac = TRUE]
    /\ UNCHANGED fixed
    /\ UNCHANGED is_replay
    /\ UNCHANGED handled

\* Lines 108-110.
IsDuplicate(d, ledger) == d \in ledger

\* The identifier is recorded as soon as it is found to be new, before the
\* body is parsed and validated.
CheckDuplicate_Recording(t) ==
    /\ pc[t] = "duplicate"
    /\ IF IsDuplicate(req[t].delivery_id, processed_deliveries)
       THEN /\ Finish(t, 200, "already_processed")
            /\ UNCHANGED <<processed_deliveries, insertion_order>>
       ELSE /\ Goto(t, "parse")
            /\ processed_deliveries' =
                  processed_deliveries \cup {req[t].delivery_id}
            /\ insertion_order' = Append(insertion_order, req[t].delivery_id)
    /\ UNCHANGED <<req, data, to_delete, order0, called, invoked, evictions,
                   succeeded, nextId, budget>>
    /\ UNCHANGED trail
    /\ UNCHANGED fixed
    /\ UNCHANGED is_replay
    /\ UNCHANGED handled

\* The duplicate is noticed but the early return is missing.
CheckDuplicate_FallsThrough(t) ==
    /\ pc[t] = "duplicate"
    /\ Goto(t, "parse")
    /\ UNCHANGED <<processed_deliveries, insertion_order, req, data,
                   to_delete, order0, called, invoked, evictions, succeeded,
                   nextId, budget>>
    /\ UNCHANGED trail
    /\ UNCHANGED fixed
    /\ UNCHANGED is_replay
    /\ UNCHANGED handled

\* A request marked as a replay is taken for a duplicate without looking at
\* the ledger.
CheckDuplicate_ReplayIsDuplicate(t) ==
    /\ pc[t] = "duplicate"
    /\ IF \/ IsDuplicate(req[t].delivery_id, processed_deliveries)
          \/ is_replay[t]
       THEN Finish(t, 200, "already_processed")
       ELSE Goto(t, "parse")
    /\ UNCHANGED <<processed_deliveries, insertion_order, req, data,
                   to_delete, order0, called, invoked, evictions, succeeded,
                   nextId, budget>>
    /\ UNCHANGED trail
    /\ UNCHANGED fixed
    /\ UNCHANGED is_replay
    /\ UNCHANGED handled

CheckDuplicate(t) ==
    /\ pc[t] = "duplicate"
    /\ IF IsDuplicate(req[t].delivery_id, processed_deliveries)
       THEN Finish(t, 200, "already_processed")
       ELSE Goto(t, "parse")
    /\ UNCHANGED <<processed_deliveries, insertion_order, req, data,
                   to_delete, order0, called, invoked, evictions, succeeded,
                   nextId, budget>>
    /\ UNCHANGED trail
    /\ UNCHANGED fixed
    /\ UNCHANGED is_replay
    /\ UNCHANGED handled

\* Lines 113-117.  Only JSONDecodeError is caught; any other exception
\* leaves webhook() and Flask answers 500.
ParsePayload(t) ==
    /\ pc[t] = "parse"
    /\ LET j == JsonLoads(req[t].payload)
       IN  IF j.outcome = "JSONDecodeError"
           THEN Finish(t, 400, "invalid_json") /\ data' = data
           ELSE IF j.outcome = "ok"
           THEN Goto(t, "validate") /\ data' = [data EXCEPT ![t] = j.value]
           ELSE Finish(t, 500, "unhandled_exception") /\ data' = data
    /\ UNCHANGED <<processed_deliveries, insertion_order, req, to_delete,
                   order0, called, invoked, evictions, succeeded, nextId,
                   budget>>
    /\ UNCHANGED trail
    /\ UNCHANGED fixed
    /\ UNCHANGED is_replay
    /\ UNCHANGED handled

\* Lines 120-122.  The `in` tests are outside any try block.
ValidateStructure(t) ==
    /\ pc[t] = "validate"
    /\ LET v == StructureCheck(data[t])
       IN  IF v = "raise" THEN Finish(t, 500, "unhandled_exception")
           ELSE IF v = "invalid" THEN Finish(t, 400, "invalid_structure")
           ELSE Goto(t, "add")
    /\ UNCHANGED <<processed_deliveries, insertion_order, req, data,
                   to_delete, order0, called, invoked, evictions, succeeded,
                   nextId, budget>>
    /\ UNCHANGED trail
    /\ UNCHANGED fixed
    /\ UNCHANGED is_replay
    /\ UNCHANGED handled

\* The identifier is never recorded.
MarkProcessed_Forgets(t) ==
    /\ pc[t] = "add"
    /\ Goto(t, "size")
    /\ UNCHANGED <<processed_deliveries, insertion_order, req, data,
                   to_delete, order0, called, invoked, evictions, succeeded,
                   nextId, budget>>
    /\ UNCHANGED trail
    /\ UNCHANGED fixed
    /\ UNCHANGED is_replay
    /\ UNCHANGED handled

\* Line 125.
MarkProcessed(t) ==
    /\ pc[t] = "add"
    /\ LET d == req[t].delivery_id
       IN  /\ processed_deliveries' = processed_deliveries \cup {d}
           /\ insertion_order' = IF d \in processed_deliveries
                                 THEN insertion_order
                                 ELSE Append(insertion_order, d)
    /\ Goto(t, "size")
    /\ UNCHANGED <<req, data, to_delete, order0, called, invoked, evictions,
                   succeeded, nextId, budget>>
    /\ trail' = [trail EXCEPT ![t].recorded = TRUE]
    /\ UNCHANGED fixed
    /\ UNCHANGED is_replay
    /\ UNCHANGED handled

\* The threshold off by one.
NeedsCleanup_OffByOne(ledger) == Cardinality(ledger) > Capacity + 1

\* Line 128.
NeedsCleanup(ledger) == Cardinality(ledger) > Capacity

CheckSize(t) ==
    /\ pc[t] = "size"
    /\ IF NeedsCleanup(processed_deliveries)
       THEN Goto(t, "list")
       ELSE Goto(t, "dispatch")
    /\ UNCHANGED <<processed_deliveries, insertion_order, req, data,
                   to_delete, order0, called, invoked, evictions, succeeded,
                   nextId, budget>>
    /\ UNCHANGED trail
    /\ UNCHANGED fixed
    /\ UNCHANGED is_replay
    /\ UNCHANGED handled

\* The slice taking one identifier more than the batch.
ToDeleteChoices_OneTooMany(ledger) ==
    {S \in SUBSET ledger :
        Cardinality(S) = Min(EvictBatch + 1, Cardinality(ledger))}

\* Line 129: list(processed_deliveries)[:100].  A set of str iterates in
\* hash-table order, and str hashes are salted per process: the first
\* EvictBatch elements of the list are an arbitrary subset of that size.
ToDeleteChoices(ledger) ==
    {S \in SUBSET ledger : Cardinality(S) = Min(EvictBatch, Cardinality(ledger))}

ListToDelete(t) ==
    /\ pc[t] = "list"
    /\ \E S \in ToDeleteChoices(processed_deliveries) :
          to_delete' = [to_delete EXCEPT ![t] = S]
    /\ Goto(t, IF processed_deliveries = {} THEN "dispatch" ELSE "discard")
    /\ UNCHANGED <<processed_deliveries, insertion_order, req, data,
                   order0, called, invoked, evictions, succeeded, nextId,
                   budget>>
    /\ UNCHANGED trail
    /\ UNCHANGED fixed
    /\ UNCHANGED is_replay
    /\ UNCHANGED handled

\* Lines 130-131: one iteration of the loop; the loop ends with the list.
Discard(t) ==
    /\ pc[t] = "discard"
    /\ \E d \in to_delete[t] :
          /\ processed_deliveries' = processed_deliveries \ {d}
          /\ insertion_order' = Remove(insertion_order, d)
          /\ evictions' = IF d \in processed_deliveries
                          THEN [evictions EXCEPT ![d] = @ + 1]
                          ELSE evictions
          /\ to_delete' = [to_delete EXCEPT ![t] = @ \ {d}]
          /\ Goto(t, IF to_delete[t] = {d} THEN "dispatch" ELSE "discard")
    /\ UNCHANGED <<req, data, order0, called, invoked, succeeded, nextId,
                   budget>>
    /\ UNCHANGED trail
    /\ UNCHANGED fixed
    /\ UNCHANGED is_replay
    /\ UNCHANGED handled

\* Lines 135-150.  data['data'] is evaluated inside the try block, before
\* the call: for a str it raises TypeError, the call is not made and the
\* exception is swallowed; so is an exception of the call itself.  The
\* response is 'success' either way.
HandlerCalled(value) == value.type = "object" /\ "data" \in value.has

\* Dispatch by the 'event' member of the signed body instead of the header.
Dispatch_ByBodyEvent(t) ==
    /\ pc[t] = "dispatch"
    /\ invoked' = IF HandlerCalled(data[t])
                  THEN [invoked EXCEPT ![req[t].delivery_id] = @ + 1]
                  ELSE invoked
    /\ called' = [called EXCEPT ![t] = HandlerCalled(data[t])]
    /\ Finish(t, 200, "success")
    /\ UNCHANGED <<processed_deliveries, insertion_order, req, data,
                   to_delete, order0, evictions, succeeded, nextId, budget>>
    /\ trail' = [trail EXCEPT ![t].handler =
                  IF HandlerCalled(data[t])
                  THEN process_webhook_event(data[t].event, data[t].member)
                  ELSE "not_called",
                                ![t].branch =
                  IF HandlerCalled(data[t]) THEN Branch(data[t].event)
                  ELSE "none"]
    /\ handled' = IF HandlerCalled(data[t])
                  THEN [handled EXCEPT ![req[t].delivery_id] = @ \cup
                          {process_webhook_event(data[t].event, data[t].member)}]
                  ELSE handled
    /\ UNCHANGED fixed
    /\ UNCHANGED is_replay

\* Dispatch that takes the identifier out of the ledger again when the
\* handler raised, so that a redelivery is handled anew.
Dispatch_UnmarksOnFailure(t) ==
    /\ pc[t] = "dispatch"
    /\ invoked' = IF HandlerCalled(data[t])
                  THEN [invoked EXCEPT ![req[t].delivery_id] = @ + 1]
                  ELSE invoked
    /\ called' = [called EXCEPT ![t] = HandlerCalled(data[t])]
    /\ Finish(t, 200, "success")
    /\ LET failed == /\ HandlerCalled(data[t])
                     /\ process_webhook_event(req[t].event, data[t].member)
                           = "raised"
       IN  /\ processed_deliveries' =
                 IF failed THEN processed_deliveries \ {req[t].delivery_id}
                 ELSE processed_deliveries
           /\ insertion_order' =
                 IF failed THEN Remove(insertion_order, req[t].delivery_id)
                 ELSE insertion_order
    /\ UNCHANGED <<req, data, to_delete, order0, evictions, succeeded, nextId,
                   budget>>
    /\ trail' = [trail EXCEPT ![t].handler =
                  IF HandlerCalled(data[t])
                  THEN process_webhook_event(req[t].event, data[t].member)
                  ELSE "not_called",
                                ![t].branch =
                  IF HandlerCalled(data[t]) THEN Branch(req[t].event)
                  ELSE "none"]
    /\ handled' = IF HandlerCalled(data[t])
                  THEN [handled EXCEPT ![req[t].delivery_id] = @ \cup
                          {process_webhook_event(req[t].event, data[t].member)}]
                  ELSE handled
    /\ UNCHANGED fixed
    /\ UNCHANGED is_replay

\* Dispatch that refuses an event type the handler has no branch for.
Dispatch_RejectsUnknown(t) ==
    /\ pc[t] = "dispatch"
    /\ invoked' = IF HandlerCalled(data[t])
                  THEN [invoked EXCEPT ![req[t].delivery_id] = @ + 1]
                  ELSE invoked
    /\ called' = [called EXCEPT ![t] = HandlerCalled(data[t])]
    /\ IF req[t].event \in KnownEvents
       THEN Finish(t, 200, "success")
       ELSE Finish(t, 400, "unknown_event")
    /\ UNCHANGED <<processed_deliveries, insertion_order, req, data,
                   to_delete, order0, evictions, succeeded, nextId, budget>>
    /\ trail' = [trail EXCEPT ![t].handler =
                  IF HandlerCalled(data[t])
                  THEN process_webhook_event(req[t].event, data[t].member)
                  ELSE "not_called",
                                ![t].branch =
                  IF HandlerCalled(data[t]) THEN Branch(req[t].event)
                  ELSE "none"]
    /\ handled' = IF HandlerCalled(data[t])
                  THEN [handled EXCEPT ![req[t].delivery_id] = @ \cup
                          {process_webhook_event(req[t].event, data[t].member)}]
                  ELSE handled
    /\ UNCHANGED fixed
    /\ UNCHANGED is_replay

\* Dispatch with the except clause of lines 138-139 removed: an exception
\* of the handler reaches Flask, which answers 500.
Dispatch_Propagates(t) ==
    /\ pc[t] = "dispatch"
    /\ invoked' = IF HandlerCalled(data[t])
                  THEN [invoked EXCEPT ![req[t].delivery_id] = @ + 1]
                  ELSE invoked
    /\ called' = [called EXCEPT ![t] = HandlerCalled(data[t])]
    /\ IF /\ HandlerCalled(data[t])
          /\ process_webhook_event(req[t].event, data[t].member) = "raised"
       THEN Finish(t, 500, "unhandled_exception")
       ELSE Finish(t, 200, "success")
    /\ UNCHANGED <<processed_deliveries, insertion_order, req, data,
                   to_delete, order0, evictions, succeeded, nextId, budget>>
    /\ trail' = [trail EXCEPT ![t].handler =
                  IF HandlerCalled(data[t])
                  THEN process_webhook_event(req[t].event, data[t].member)
                  ELSE "not_called",
                                ![t].branch =
                  IF HandlerCalled(data[t]) THEN Branch(req[t].event)
                  ELSE "none"]
    /\ handled' = IF HandlerCalled(data[t])
                  THEN [handled EXCEPT ![req[t].delivery_id] = @ \cup
                          {process_webhook_event(req[t].event, data[t].member)}]
                  ELSE handled
    /\ UNCHANGED fixed
    /\ UNCHANGED is_replay

Dispatch(t) ==
    /\ pc[t] = "dispatch"
    /\ invoked' = IF HandlerCalled(data[t])
                  THEN [invoked EXCEPT ![req[t].delivery_id] = @ + 1]
                  ELSE invoked
    /\ called' = [called EXCEPT ![t] = HandlerCalled(data[t])]
    /\ Finish(t, 200, "success")
    /\ UNCHANGED <<processed_deliveries, insertion_order, req, data,
                   to_delete, order0, evictions, succeeded, nextId, budget>>
    /\ trail' = [trail EXCEPT ![t].handler =
                  IF HandlerCalled(data[t])
                  THEN process_webhook_event(req[t].event, data[t].member)
                  ELSE "not_called",
                                ![t].branch =
                  IF HandlerCalled(data[t]) THEN Branch(req[t].event)
                  ELSE "none"]
    /\ handled' = IF HandlerCalled(data[t])
                  THEN [handled EXCEPT ![req[t].delivery_id] = @ \cup
                          {process_webhook_event(req[t].event, data[t].member)}]
                  ELSE handled
    /\ UNCHANGED fixed
    /\ UNCHANGED is_replay

\* The response has been sent; the thread is free again.
Return(t) ==
    /\ pc[t] = "done"
    /\ pc' = [pc EXCEPT ![t] = "idle"]
    /\ req' = [req EXCEPT ![t] = NoReq]
    /\ data' = [data EXCEPT ![t] = NoData]
    /\ to_delete' = [to_delete EXCEPT ![t] = {}]
    /\ resp' = [resp EXCEPT ![t] = NoResp]
    /\ order0' = [order0 EXCEPT ![t] = <<>>]
    /\ called' = [called EXCEPT ![t] = FALSE]
    /\ is_replay' = [is_replay EXCEPT ![t] = FALSE]
    /\ succeeded' = IF resp[t].kind = "success"
                    THEN succeeded \cup {req[t].delivery_id}
                    ELSE succeeded
    /\ UNCHANGED <<processed_deliveries, insertion_order, invoked, evictions,
                   nextId, budget>>
    /\ trail' = [trail EXCEPT ![t] = NoTrail]
    /\ UNCHANGED fixed
    /\ UNCHANGED handled

Step(t) ==
    \/ CheckHeaders(t)
    \/ VerifySignature(t)
    \/ CheckDuplicate(t)
    \/ ParsePayload(t)
    \/ ValidateStructure(t)
    \/ MarkProcessed(t)
    \/ CheckSize(t)
    \/ ListToDelete(t)
    \/ Discard(t)
    \/ Dispatch(t)
    \/ Return(t)

Next == Startup \/ \E t \in Threads : Receive(t) \/ Step(t)

SeqNext == Startup \/ \E t \in Threads : SeqReceive(t) \/ Step(t)

\* Requests on concurrent threads (app.run: threaded by default).
Spec == Init /\ [][Next]_vars

\* Requests handled one after another.
SeqSpec == SeqInit /\ [][SeqNext]_vars

(* --------------------------- process life cycle ------------------------ *)

\* Lines 176-179 (SIGINT, SIGTERM): sys.exit(0).  The request threads die
\* with the process, whatever they were doing.
Shutdown ==
    /\ process.phase = "serving"
    /\ process' = [phase |-> "exited", exit_status |-> 0]
    /\ pc' = [t \in Threads |-> "idle"]
    /\ req' = [t \in Threads |-> NoReq]
    /\ data' = [t \in Threads |-> NoData]
    /\ to_delete' = [t \in Threads |-> {}]
    /\ resp' = [t \in Threads |-> NoResp]
    /\ order0' = [t \in Threads |-> <<>>]
    /\ called' = [t \in Threads |-> FALSE]
    /\ is_replay' = [t \in Threads |-> FALSE]
    /\ trail' = [t \in Threads |-> NoTrail]
    /\ UNCHANGED <<processed_deliveries, insertion_order, handled, invoked,
                   evictions,
                   succeeded, nextId, budget, webhook_secret, generation,
                   previous, health, docs, probe>>

\* The ledger is written to a store that outlives the process.
Start_KeepsLedger ==
    /\ process.phase = "exited"
    /\ generation < MaxStarts
    /\ process' = [phase |-> "starting", exit_status |-> -1]
    /\ webhook_secret' \in EnvSecrets
    /\ generation' = generation + 1
    /\ previous' = previous \cup succeeded
    /\ succeeded' = {}
    /\ UNCHANGED <<processed_deliveries, insertion_order, pc, req, data,
                   to_delete, resp, order0, called, is_replay, handled, trail,
                   invoked, evictions,
                   nextId, budget, health, docs, probe>>

\* The server is launched again: the module is executed from its first
\* line, which reads the environment (line 13) and makes processed_deliveries
\* a new empty set (line 20).  What the process before answered 'success'
\* moves from succeeded to previous.
Start ==
    /\ process.phase = "exited"
    /\ generation < MaxStarts
    /\ process' = [phase |-> "starting", exit_status |-> -1]
    /\ webhook_secret' \in EnvSecrets
    /\ processed_deliveries' = {}
    /\ insertion_order' = <<>>
    /\ generation' = generation + 1
    /\ previous' = previous \cup succeeded
    /\ succeeded' = {}
    /\ UNCHANGED <<pc, req, data, to_delete, resp, order0, called,
                   is_replay, handled, trail, invoked, evictions, nextId,
                   budget, health, docs, probe>>

\* GET /health counting every identifier ever delivered, recorded or not.
Health_CountsSeen(t) ==
    /\ process.phase = "serving"
    /\ pc[t] = "idle"
    /\ budget > 0
    /\ budget' = budget - 1
    /\ health' = nextId - 1
    /\ Finish(t, 200, "healthy")
    /\ UNCHANGED <<processed_deliveries, insertion_order, req, data,
                   to_delete, order0, called, is_replay, handled, trail,
                   invoked, evictions, succeeded, nextId, process,
                   webhook_secret, generation, previous, docs, probe>>

\* Lines 152-159: GET /health reads no header and no body and answers 200
\* with len(processed_deliveries).
Health(t) ==
    /\ process.phase = "serving"
    /\ pc[t] = "idle"
    /\ budget > 0
    /\ budget' = budget - 1
    /\ health' = Cardinality(processed_deliveries)
    /\ Finish(t, 200, "healthy")
    /\ UNCHANGED <<processed_deliveries, insertion_order, req, data,
                   to_delete, order0, called, is_replay, handled, trail,
                   invoked, evictions, succeeded, nextId, process,
                   webhook_secret, generation, previous, docs, probe>>

LifeInit ==
    /\ InitCommon
    /\ probe = NoProbe
    /\ docs = NoDocs
    /\ budget = MaxLifeRequests

LifeNext ==
    \/ Startup
    \/ Shutdown
    \/ Start
    \/ Health(MainThread)
    \/ \E t \in Threads : LifeReceive(t) \/ Step(t)

\* A server handling one request at a time that may be stopped and launched
\* again.
LifeSpec == LifeInit /\ [][LifeNext]_vars

(* ------------------ verify_webhook_signature on its own ---------------- *)

\* The function is applied to arguments drawn from Probes; the server does
\* nothing meanwhile.
VerifyInit ==
    /\ InitCommon
    /\ budget = 0
    /\ docs = NoDocs
    /\ probe \in Probes

ApplyVerify ==
    /\ probe.result = "none"
    /\ probe' = [probe EXCEPT !.result =
                    verify_webhook_signature(probe.payload,
                                             HexHmac(probe.secret, probe.signed),
                                             probe.secret)]
    /\ UNCHANGED <<processed_deliveries, insertion_order, pc, req, data,
                   to_delete, resp, order0, called, is_replay, handled, trail,
                   invoked, evictions,
                   succeeded, nextId, budget, process, webhook_secret,
                   generation, previous, health, docs>>

VerifyNext == ApplyVerify

VerifySpec == VerifyInit /\ [][VerifyNext]_vars

(* ------------------------ vocabulary of the claims --------------------- *)

\* The request carries all three required headers.
AllHeaders(r) ==
    r.signature # EmptySignature /\ r.event # "" /\ r.delivery_id # NoId

\* The signature header is the hex HMAC-SHA256 of the raw body under the
\* configured secret.
CorrectlySigned(r) == r.signature = HexHmac(WEBHOOK_SECRET, r.payload)

\* processed_deliveries as it was when the request of thread t arrived.
Ledger0(t) == {order0[t][i] : i \in 1 .. Len(order0[t])}

\* The request of thread t has been answered.
Answered(t) == pc[t] = "done"

Rejections ==
    {Response(400, "missing_headers"), Response(400, "invalid_json"),
     Response(400, "invalid_structure"), Response(401, "invalid_signature"),
     Response(500, "verification_error")}

\* Thread t is at or past the duplicate check of line 108.
PastVerification(t) ==
    \/ pc[t] \in {"duplicate", "parse", "validate", "add", "size", "list",
                  "discard", "dispatch"}
    \/ /\ pc[t] = "done"
       /\ resp[t].kind \in {"already_processed", "invalid_json",
                            "invalid_structure", "unhandled_exception",
                            "success"}

\* Thread t found its delivery identifier absent from the ledger at line 108.
ObservedNotSeen(t) ==
    \/ pc[t] \in {"parse", "validate", "add", "size", "list", "discard",
                  "dispatch"}
    \/ pc[t] = "done" /\ resp[t].kind = "success"

(* --------------------- add-frontmatter.py on its own ------------------- *)

\* docs.files is the directory, docs.original the directory as it was found
\* (history), docs.todo the files the loop of line 84 has yet to visit,
\* docs.pass the number of runs of process_directory begun, docs.updated the
\* <<pass, file>> pairs written (history).
FrontInit ==
    /\ InitCommon
    /\ budget = 0
    /\ probe = NoProbe
    /\ \E F \in Directories :
          docs = [files |-> F, original |-> F, todo |-> <<>>, pass |-> 0,
                  updated |-> {}]

\* Lines 74-84: process_directory is called and lists the directory.
BeginPass ==
    /\ docs.todo = <<>>
    /\ docs.pass < MaxPasses
    /\ docs' = [docs EXCEPT !.pass = @ + 1, !.todo = MdFiles]
    /\ UNCHANGED <<processed_deliveries, insertion_order, pc, req, data,
                   to_delete, resp, order0, called, is_replay, handled, trail,
                   invoked, evictions, succeeded, nextId, budget, process,
                   webhook_secret, generation, previous, health, probe>>

\* Lines 84-95: one iteration of the loop over the sorted files.
ProcessFile ==
    /\ docs.todo # <<>>
    /\ LET md_file == Head(docs.todo)
           new_content == generate_frontmatter(docs.files[md_file])
       IN  docs' = IF md_file = "index.md" \/ new_content.none
                   THEN [docs EXCEPT !.todo = Tail(@)]
                   ELSE [docs EXCEPT
                           !.todo = Tail(@),
                           !.files[md_file] = WriteText(new_content.text),
                           !.updated = @ \cup {<<docs.pass, md_file>>}]
    /\ UNCHANGED <<processed_deliveries, insertion_order, pc, req, data,
                   to_delete, resp, order0, called, is_replay, handled, trail,
                   invoked, evictions, succeeded, nextId, budget, process,
                   webhook_secret, generation, previous, health, probe>>

FrontNext == BeginPass \/ ProcessFile

FrontSpec == FrontInit /\ [][FrontNext]_vars

(* -------------------------------- C1 ----------------------------------- *)

\* C1 as stated (sequential handling): once a request bearing d was answered
\* 'success', every later correctly signed request bearing d is answered
\* 200 'already_processed', and the handler runs for d at most once.
C1_ProcessedOnceForever ==
    /\ \A t \in Threads :
          (/\ Answered(t)
           /\ AllHeaders(req[t])
           /\ CorrectlySigned(req[t])
           /\ req[t].delivery_id \in succeeded)
          => resp[t] = Response(200, "already_processed")
    /\ \A d \in Ids : invoked[d] <= 1

\* C1 amended (sequential handling): once a request bearing d was answered
\* 'success', every later correctly signed request bearing d that arrives
\* while d is still in the ledger is answered 200 'already_processed'
\* without running the handler, and the handler runs for d at most once
\* more than clean-up has evicted d.
C1_ProcessedOncePerResidency ==
    /\ \A t \in Threads :
          (/\ Answered(t)
           /\ AllHeaders(req[t])
           /\ CorrectlySigned(req[t])
           /\ req[t].delivery_id \in succeeded
           /\ req[t].delivery_id \in Ledger0(t))
          => /\ resp[t] = Response(200, "already_processed")
             /\ ~called[t]
    /\ \A d \in Ids : invoked[d] <= 1 + evictions[d]

\* A redelivery of a processed, never evicted identifier was suppressed.
C1_Witness ==
    \E t \in Threads :
       /\ Answered(t)
       /\ CorrectlySigned(req[t])
       /\ req[t].delivery_id \in succeeded
       /\ resp[t] = Response(200, "already_processed")
       /\ invoked[req[t].delivery_id] = 1
       /\ evictions[req[t].delivery_id] = 0

(* -------------------------------- C2 ----------------------------------- *)

\* C2 as stated (concurrent handling): of two requests in progress at the
\* same time with the same delivery identifier, at most one finds the
\* identifier not yet seen; while the identifier has not been evicted the
\* handler runs for it at most once.
C2_AtMostOneFirstSight ==
    /\ \A t, u \in Threads :
          (/\ t # u
           /\ req[t].delivery_id \in Ids
           /\ req[t].delivery_id = req[u].delivery_id
           /\ evictions[req[t].delivery_id] = 0)
          => ~(ObservedNotSeen(t) /\ ObservedNotSeen(u))
    /\ \A d \in Ids : evictions[d] = 0 => invoked[d] <= 1

(* -------------------------------- C3 ----------------------------------- *)

\* C3: a request is at or past the duplicate check, the parser, the insert
\* or the handler only if it carries all headers and its signature is the
\* HMAC of its raw body under the configured secret.
C3_VerifiedBeforeParsing ==
    \A t \in Threads :
       PastVerification(t) => AllHeaders(req[t]) /\ CorrectlySigned(req[t])

\* json.loads has run, on a body whose signature was verified.
C3_Witness ==
    \E t \in Threads :
       /\ pc[t] = "validate"
       /\ data[t] = BodyTable[req[t].payload]
       /\ CorrectlySigned(req[t])

(* -------------------------------- C4 ----------------------------------- *)

\* C4 as stated: a request with all headers and a correct signature whose
\* body is text that is no JSON is answered 400 'Invalid JSON payload',
\* whatever the ledger holds.
C4_MalformedJsonIs400 ==
    \A t \in Threads :
       (/\ Answered(t)
        /\ AllHeaders(req[t])
        /\ CorrectlySigned(req[t])
        /\ BodyTable[req[t].payload].utf8
        /\ ~BodyTable[req[t].payload].syntax)
       => resp[t] = Response(400, "invalid_json")

(* -------------------------------- C5 ----------------------------------- *)

\* C5 (sequential handling): a request answered with a rejection has left
\* processed_deliveries as it found it and has not run the handler.
C5_RejectionChangesNothing ==
    \A t \in Threads :
       (Answered(t) /\ resp[t] \in Rejections)
       => /\ processed_deliveries = Ledger0(t)
          /\ ~called[t]

\* A fresh, correctly signed request was rejected for its body while the
\* ledger was not empty.
C5_Witness ==
    \E t \in Threads :
       /\ Answered(t)
       /\ resp[t] = Response(400, "invalid_structure")
       /\ CorrectlySigned(req[t])
       /\ processed_deliveries # {}

(* -------------------------------- C6 ----------------------------------- *)

\* C6 as stated: in every reachable state, the states between an insert and
\* the clean-up after it included, the ledger holds at most Capacity
\* identifiers.
C6_NeverAboveCapacity == Cardinality(processed_deliveries) <= Capacity

\* Thread t has inserted its identifier and not yet finished clean-up.
InCleanup(t) == pc[t] \in {"size", "list", "discard"}

\* C6 amended (sequential handling): the ledger holds at most Capacity + 1
\* identifiers in every reachable state, and at most Capacity in every state
\* in which no request is between its insert and the end of its clean-up.
C6_AboveCapacityOnlyInsideCleanup ==
    /\ Cardinality(processed_deliveries) <= Capacity + 1
    /\ (\A t \in Threads : ~InCleanup(t))
       => Cardinality(processed_deliveries) <= Capacity

\* The insert that overflows the ledger has happened, the clean-up not yet.
C6_Witness ==
    \E t \in Threads :
       /\ pc[t] = "list"
       /\ Cardinality(processed_deliveries) = Capacity + 1

(* -------------------------------- C7 ----------------------------------- *)

\* C7 as stated (concurrent handling): in every state, each of which GET
\* /health may observe, the ledger holds at most Capacity + EvictBatch
\* identifiers.
C7_WithinCapacityPlusBatch ==
    Cardinality(processed_deliveries) <= Capacity + EvictBatch

(* -------------------------------- C8 ----------------------------------- *)

\* insertion_order as it was right after the insert of thread t's request
\* (sequential handling).
OrderAfterInsert(t) ==
    IF req[t].delivery_id \in Ledger0(t)
    THEN order0[t]
    ELSE Append(order0[t], req[t].delivery_id)

Position(s, x) == CHOOSE i \in 1 .. Len(s) : s[i] = x

\* C8 as stated (sequential handling): when a request's clean-up has run,
\* every identifier it removed was inserted before every identifier it left
\* in the ledger.
C8_EvictsOldestFirst ==
    \A t \in Threads :
       pc[t] = "dispatch"
       => LET before  == OrderAfterInsert(t)
              members == {before[i] : i \in 1 .. Len(before)}
              evicted == members \ processed_deliveries
          IN  \A e \in evicted : \A r \in processed_deliveries :
                 Position(before, e) < Position(before, r)

(* -------------------------------- C9 ----------------------------------- *)

\* The requests received so far.
Received == MaxSeqRequests - budget

\* Every request so far was a valid delivery with an identifier of its own,
\* all are finished, and there were n of them: identifiers 1 .. n, in this
\* order.
DistinctValidRun(n) ==
    /\ \A t \in Threads : pc[t] = "idle"
    /\ Received = n
    /\ nextId = n + 1
    /\ \A d \in 1 .. n : invoked[d] = 1

\* C9 as stated: after more than Capacity sequential valid deliveries with
\* distinct identifiers, from an empty ledger, the ledger holds at most
\* Capacity identifiers, the last delivery's among them and the first one's
\* not.
C9_LastKeptFirstEvicted ==
    \A n \in (Capacity + 1) .. MaxSeqRequests :
       DistinctValidRun(n)
       => /\ Cardinality(processed_deliveries) <= Capacity
          /\ n \in processed_deliveries
          /\ 1 \notin processed_deliveries

(* -------------------------------- C10 ---------------------------------- *)

\* C10 (sequential handling): a request with all headers and a correct
\* signature whose identifier is in the ledger when it is checked is
\* answered 200 'already_processed', does not run the handler and leaves the
\* ledger as it was.
C10_DuplicateShortCircuits ==
    \A t \in Threads :
       (/\ Answered(t)
        /\ AllHeaders(req[t])
        /\ CorrectlySigned(req[t])
        /\ req[t].delivery_id \in Ledger0(t))
       => /\ resp[t] = Response(200, "already_processed")
          /\ ~called[t]
          /\ processed_deliveries = Ledger0(t)

\* A duplicate whose body would not even parse was answered
\* 'already_processed'.
C10_Witness ==
    \E t \in Threads :
       /\ Answered(t)
       /\ CorrectlySigned(req[t])
       /\ req[t].delivery_id \in Ledger0(t)
       /\ req[t].payload = "badjson"
       /\ resp[t] = Response(200, "already_processed")

(* -------------------------------- C11 ---------------------------------- *)

\* C11: a request that passed the header, signature, duplicate and structure
\* checks (its identifier was recorded) is answered 200 'success' whether
\* process_webhook_event returned or raised, and the step that answers it is
\* the dispatch step, which leaves the ledger as it was: a failure of the
\* handler removes nothing.
C11_HandlerFailureIsSuccess ==
    [][\A t \in Threads :
          (pc[t] # "done" /\ pc'[t] = "done" /\ trail[t].recorded)
          => /\ pc[t] = "dispatch"
             /\ resp'[t] = Response(200, "success")
             /\ trail'[t].handler \in {"returned", "raised", "not_called"}
             /\ processed_deliveries' = processed_deliveries]_vars

\* The handler raised (a known event whose 'data' is a number), the answer
\* is 'success' and the identifier is still recorded.
C11_Witness ==
    \E t \in Threads :
       /\ Answered(t)
       /\ trail[t].handler = "raised"
       /\ resp[t] = Response(200, "success")
       /\ req[t].delivery_id \in processed_deliveries

(* -------------------------------- C12 ---------------------------------- *)

\* C12: a request in which any of the three required headers is absent or
\* empty gets no further than the header test: it is answered 400 'Missing
\* required headers' and verify_webhook_signature is never called for it,
\* so no HMAC is computed.
C12_MissingHeaderIs400BeforeHmac ==
    \A t \in Threads :
       (pc[t] \notin {"idle", "headers"} /\ ~AllHeaders(req[t]))
       => /\ Answered(t)
          /\ resp[t] = Response(400, "missing_headers")
          /\ ~trail[t].hmac

\* A request with a signature and a delivery identifier but an empty event
\* header was answered 400.
C12_Witness ==
    \E t \in Threads :
       /\ Answered(t)
       /\ req[t].signature = HexHmac(WEBHOOK_SECRET, req[t].payload)
       /\ req[t].delivery_id # NoId
       /\ req[t].event = ""
       /\ resp[t].status = 400
       /\ ~trail[t].hmac

(* -------------------------------- C13 ---------------------------------- *)

\* C13 as stated: a request with all three headers whose signature is not
\* the hex HMAC-SHA256 of the raw body under the configured secret is
\* answered 401, whatever the body and the ledger.
C13_MismatchIs401 ==
    \A t \in Threads :
       (Answered(t) /\ AllHeaders(req[t]) /\ ~CorrectlySigned(req[t]))
       => resp[t].status = 401

\* C13 as the code has it: such a request is answered 401 when its signature
\* is an ASCII string, and 500 'Signature verification error' when the
\* signature holds a non-ASCII character (hmac.compare_digest raises); in
\* neither case does it get past verification.
C13_AsciiMismatchIs401 ==
    \A t \in Threads :
       (/\ pc[t] \notin {"idle", "headers", "verify"}
        /\ AllHeaders(req[t])
        /\ ~CorrectlySigned(req[t]))
       => /\ Answered(t)
          /\ resp[t] = IF req[t].signature.ascii
                       THEN Response(401, "invalid_signature")
                       ELSE Response(500, "verification_error")

\* A signature made with another secret, over a body that is no JSON and
\* with an identifier the ledger already holds, was answered 401.
C13_Witness ==
    \E t \in Threads :
       /\ Answered(t)
       /\ req[t].signature = HexHmac(OtherSecret, req[t].payload)
       /\ req[t].payload = "badjson"
       /\ req[t].event # ""
       /\ req[t].delivery_id \in Ledger0(t)
       /\ resp[t].status = 401

(* -------------------------------- C14 ---------------------------------- *)

\* C14 as stated: a request whose signature is missing is answered 401.
C14_MissingSignatureIs401 ==
    \A t \in Threads :
       (Answered(t) /\ req[t].signature = EmptySignature)
       => resp[t].status = 401

\* C14 as the code has it: a request whose signature is missing is answered
\* 400 'Missing required headers', by the header test that precedes
\* verification.
C14_MissingSignatureIs400 ==
    \A t \in Threads :
       (Answered(t) /\ req[t].signature = EmptySignature)
       => resp[t] = Response(400, "missing_headers")

\* A request with an event and a delivery identifier but no signature was
\* answered 400.
C14_Witness ==
    \E t \in Threads :
       /\ Answered(t)
       /\ req[t].signature = EmptySignature
       /\ req[t].event # ""
       /\ req[t].delivery_id # NoId
       /\ resp[t].status = 400

(* -------------------------------- C15 ---------------------------------- *)

\* C15: a request for which verify_webhook_signature raises is answered 500
\* 'Signature verification error', not 401 and not Flask's answer to an
\* exception that left the handler, and it gets no further.
C15_VerificationRaiseIs500 ==
    \A t \in Threads :
       (/\ pc[t] \notin {"idle", "headers", "verify"}
        /\ AllHeaders(req[t])
        /\ VerifyOutcome(req[t]) = "raise")
       => /\ Answered(t)
          /\ resp[t] = Response(500, "verification_error")
          /\ resp[t] # Response(401, "invalid_signature")
          /\ resp[t].kind # "unhandled_exception"

\* hmac.compare_digest raised on a non-ASCII signature and the request was
\* answered 500.
C15_Witness ==
    \E t \in Threads :
       /\ Answered(t)
       /\ AllHeaders(req[t])
       /\ req[t].signature = NonAsciiSignature
       /\ trail[t].hmac
       /\ resp[t].status = 500

(* -------------------------------- C16 ---------------------------------- *)

\* C16: no body makes the handler fail with an exception it does not catch:
\* every answer to a request with all headers and a correct signature is one
\* of the handler's own responses, and an answer of 500 is given only when
\* signature verification raised.
C16_NoBodyCrashesHandler ==
    \A t \in Threads :
       (Answered(t) /\ AllHeaders(req[t]) /\ CorrectlySigned(req[t]))
       => /\ resp[t].kind # "unhandled_exception"
          /\ resp[t].status = 500 => VerifyOutcome(req[t]) = "raise"

(* -------------------------------- C17 ---------------------------------- *)

\* The parsed body is a mapping with the keys 'event', 'timestamp', 'data'.
IsEnvelope(value) == value.type = "object" /\ RequiredKeys \subseteq value.has

\* C17: an identifier is recorded, and process_webhook_event is called,
\* only for a request whose parsed body is a mapping with all three keys;
\* and a correctly signed request with an identifier not in the ledger whose
\* body parses to a mapping or other container that is no such mapping is
\* answered 400 'Invalid payload structure'.
C17_OnlyEnvelopesRecorded ==
    \A t \in Threads :
       /\ (trail[t].recorded \/ called[t]) => IsEnvelope(data[t])
       /\ (/\ Answered(t)
           /\ AllHeaders(req[t])
           /\ CorrectlySigned(req[t])
           /\ req[t].delivery_id \notin Ledger0(t)
           /\ JsonLoads(req[t].payload).outcome = "ok"
           /\ BodyTable[req[t].payload].type \in {"object", "string"}
           /\ ~IsEnvelope(BodyTable[req[t].payload]))
          => resp[t] = Response(400, "invalid_structure")

(* -------------------------------- C18 ---------------------------------- *)

\* C18: a correctly signed request with an identifier not in the ledger and
\* an envelope body whose event header is none of the three known types is
\* answered 200 'success' after its identifier was recorded and the handler
\* returned, as for a known event.
C18_UnknownEventIsSuccess ==
    \A t \in Threads :
       (/\ Answered(t)
        /\ AllHeaders(req[t])
        /\ CorrectlySigned(req[t])
        /\ req[t].delivery_id \notin Ledger0(t)
        /\ IsEnvelope(BodyTable[req[t].payload])
        /\ req[t].event \notin KnownEvents)
       => /\ resp[t] = Response(200, "success")
          /\ trail[t].recorded
          /\ trail[t].handler = "returned"

\* A 'custom.event' delivery was answered 'success' and its identifier is
\* in the ledger.
C18_Witness ==
    \E t \in Threads :
       /\ Answered(t)
       /\ req[t].event = "custom.event"
       /\ IsEnvelope(data[t])
       /\ resp[t] = Response(200, "success")
       /\ trail[t].recorded
       /\ req[t].delivery_id \in processed_deliveries
       /\ req[t].delivery_id \notin Ledger0(t)

(* -------------------------------- C19 ---------------------------------- *)

\* C19: for all bodies b, b' and secrets s, with the digest an injective
\* keyed hash, verify_webhook_signature(b', hex HMAC of b under s, s)
\* returns, and returns True exactly when b' = b.
C19_VerifiesExactlyTheSignedBody ==
    probe.result # "none"
    => /\ probe.result \in {"true", "false"}
       /\ probe.result = "true" <=> probe.payload = probe.signed

\* A body other than the signed one was refused.
C19_Witness ==
    /\ probe.payload # probe.signed
    /\ probe.secret = WEBHOOK_SECRET
    /\ probe.result = "false"

(* -------------------------------- C20 ---------------------------------- *)

\* C20: with WEBHOOK_SECRET unset or empty the process exits with status 1
\* and serves nothing: no request is ever in progress, and none has been
\* received or recorded, unless the process is serving with a non-empty
\* secret.
C20_NoSecretNoService ==
    /\ process.phase = "serving" => webhook_secret \notin {Unset, ""}
    /\ (process.phase # "starting" /\ webhook_secret \in {Unset, ""})
       => process = [phase |-> "exited", exit_status |-> 1]
    /\ process.phase # "serving"
       => /\ \A t \in Threads : pc[t] = "idle" /\ req[t] = NoReq
          /\ processed_deliveries = {}
          /\ budget = MaxSeqRequests

\* Started with an empty secret, the process has exited with status 1.
C20_Witness ==
    /\ webhook_secret = ""
    /\ process = [phase |-> "exited", exit_status |-> 1]

(* -------------------------------- C21 ---------------------------------- *)

\* C21: the ledger is empty whenever a process starts, and a correctly
\* signed envelope bearing an identifier that an earlier process answered
\* 'success', and that this process has not yet answered 'success', is
\* handled as new: process_webhook_event is called and the answer is
\* 'success', not 'already_processed'.
C21_RestartForgetsLedger ==
    /\ process.phase = "starting" => processed_deliveries = {}
    /\ \A t \in Threads :
          (/\ Answered(t)
           /\ AllHeaders(req[t])
           /\ CorrectlySigned(req[t])
           /\ IsEnvelope(BodyTable[req[t].payload])
           /\ req[t].delivery_id \in previous
           /\ req[t].delivery_id \notin succeeded)
          => /\ resp[t] = Response(200, "success")
             /\ called[t]

\* Identifier 1 was answered 'success' before the restart and again after
\* it, the handler having run twice.
C21_Witness ==
    \E t \in Threads :
       /\ generation = 2
       /\ Answered(t)
       /\ req[t].delivery_id \in previous
       /\ resp[t] = Response(200, "success")
       /\ invoked[req[t].delivery_id] = 2

(* -------------------------------- C22 ---------------------------------- *)

\* C22: GET /health, which takes no header and no signature, always answers
\* 200, reports the number of identifiers the ledger holds when it is read,
\* and leaves the ledger as it was.  (A step from idle straight to an answer
\* is a /health request: webhook() has the header test in between.)
C22_HealthReportsLedgerSize ==
    [][\A t \in Threads :
          (pc[t] = "idle" /\ pc'[t] = "done")
          => /\ req'[t] = NoReq
             /\ resp'[t] = Response(200, "healthy")
             /\ health' = Cardinality(processed_deliveries)
             /\ processed_deliveries' = processed_deliveries
             /\ insertion_order' = insertion_order]_vars

\* /health reported a full ledger.
C22_Witness ==
    \E t \in Threads :
       /\ Answered(t)
       /\ resp[t] = Response(200, "healthy")
       /\ health = Capacity
       /\ Cardinality(processed_deliveries) = Capacity

(* -------------------------------- C23 ---------------------------------- *)

\* What a request r arriving at ledger `ledger` is answered, by the body,
\* the three required headers and the ledger alone.
ExpectedKind(r, ledger) ==
    IF ~AllHeaders(r) THEN "missing_headers"
    ELSE LET v == verify_webhook_signature(r.payload, r.signature,
                                           WEBHOOK_SECRET)
             j == JsonLoads(r.payload)
             c == StructureCheck(j.value)
         IN  IF v = "raise" THEN "verification_error"
             ELSE IF v = "false" THEN "invalid_signature"
             ELSE IF r.delivery_id \in ledger THEN "already_processed"
             ELSE IF j.outcome = "JSONDecodeError" THEN "invalid_json"
             ELSE IF j.outcome # "ok" THEN "unhandled_exception"
             ELSE IF c = "raise" THEN "unhandled_exception"
             ELSE IF c = "invalid" THEN "invalid_structure"
             ELSE "success"

\* The ledgers it may leave behind.
ExpectedLedgers(r, ledger) ==
    IF ExpectedKind(r, ledger) # "success" THEN {ledger}
    ELSE LET added == ledger \cup {r.delivery_id}
         IN  IF NeedsCleanup(added)
             THEN {added \ S : S \in ToDeleteChoices(added)}
             ELSE {added}

\* C23: X-Webhook-Replay is informational.  Whatever its value, the answer
\* to a POST /webhook request, whether the handler was called, and the
\* ledgers the request may leave are those given by the rest of the request
\* and the ledger it met; so two requests that differ in that header only,
\* met by the same ledger, fare the same.
C23_ReplayHeaderChangesNothing ==
    \A t \in Threads :
       (Answered(t) /\ resp[t].kind # "healthy")
       => /\ is_replay[t] \in BOOLEAN
          /\ resp[t].kind = ExpectedKind(req[t], Ledger0(t))
          /\ called[t] = (/\ ExpectedKind(req[t], Ledger0(t)) = "success"
                          /\ HandlerCalled(BodyTable[req[t].payload]))
          /\ processed_deliveries \in ExpectedLedgers(req[t], Ledger0(t))

\* A first delivery sent with X-Webhook-Replay: true was handled as any
\* first delivery: handler called, identifier recorded, 'success'.
C23_Witness ==
    \E t \in Threads :
       /\ Answered(t)
       /\ is_replay[t]
       /\ req[t].delivery_id \notin Ledger0(t)
       /\ called[t]
       /\ req[t].delivery_id \in processed_deliveries
       /\ resp[t] = Response(200, "success")

(* -------------------------------- C24 ---------------------------------- *)

\* C24: once the handler has raised for identifier d, and as long as d has
\* not been evicted and the process not restarted, a correctly signed
\* redelivery of d is answered 'already_processed' without the handler
\* being called; so the handler has run once for d and never returned.
C24_FailedDeliveryIsNotRetried ==
    /\ \A t \in Threads :
          (/\ Answered(t)
           /\ AllHeaders(req[t])
           /\ CorrectlySigned(req[t])
           /\ "raised" \in handled[req[t].delivery_id]
           /\ evictions[req[t].delivery_id] = 0
           /\ generation = 1
           /\ req[t].delivery_id \in Ledger0(t))
          => /\ resp[t] = Response(200, "already_processed")
             /\ ~called[t]
    /\ \A d \in Ids :
          ("raised" \in handled[d] /\ evictions[d] = 0 /\ generation = 1)
          => /\ handled[d] = {"raised"}
             /\ invoked[d] = 1

\* The handler raised for an identifier, and an envelope the handler would
\* have accepted, redelivered under that identifier, was suppressed.
C24_Witness ==
    \E t \in Threads :
       /\ Answered(t)
       /\ req[t].delivery_id \in Ids
       /\ CorrectlySigned(req[t])
       /\ req[t].payload = "ok"
       /\ handled[req[t].delivery_id] = {"raised"}
       /\ resp[t] = Response(200, "already_processed")
       /\ ~called[t]

(* -------------------------------- C25 ---------------------------------- *)

\* C25 (sequential handling): the identifier of a request has been inserted
\* into processed_deliveries when process_webhook_event is about to be
\* called, and when a request has been answered 'success' its own identifier
\* is in processed_deliveries, clean-up or not.
C25_OwnIdentifierStaysRecorded ==
    \A t \in Threads :
       /\ (pc[t] = "dispatch" \/ called[t]) => trail[t].recorded
       /\ (Answered(t) /\ resp[t] = Response(200, "success"))
          => req[t].delivery_id \in processed_deliveries

(* -------------------------------- C26 ---------------------------------- *)

\* C26 (sequential handling): a request removes identifiers only when the
\* ledger, right after the insert of its own, holds more than Capacity of
\* them, and then removes exactly EvictBatch (Capacity + 1 - EvictBatch are
\* left); any other request removes none.
C26_CleanupRemovesExactlyOneBatch ==
    \A t \in Threads :
       Answered(t)
       => LET before == Ledger0(t)
              added == before \cup {req[t].delivery_id}
          IN  IF resp[t] # Response(200, "success")
              THEN processed_deliveries = before
              ELSE IF Cardinality(added) > Capacity
              THEN /\ processed_deliveries \subseteq added
                   /\ Cardinality(added \ processed_deliveries) = EvictBatch
                   /\ Cardinality(processed_deliveries)
                         = Capacity + 1 - EvictBatch
              ELSE processed_deliveries = added

\* A new identifier met a full ledger: one batch was removed.
C26_Witness ==
    \E t \in Threads :
       /\ Answered(t)
       /\ resp[t] = Response(200, "success")
       /\ Cardinality(Ledger0(t)) = Capacity
       /\ req[t].delivery_id \notin Ledger0(t)
       /\ Cardinality(processed_deliveries) = Capacity + 1 - EvictBatch

(* -------------------------------- C27 ---------------------------------- *)

\* C27: whether a request with all headers passes verification is decided
\* by its body, its signature and the secret alone, whatever its delivery
\* identifier and event; hence a correctly signed envelope sent under an
\* identifier that is not in the ledger has the handler called and is
\* answered 'success', however often the same body and signature were
\* accepted before.
C27_VerificationIgnoresIdentifier ==
    \A t \in Threads :
       /\ (pc[t] \notin {"idle", "headers", "verify"} /\ AllHeaders(req[t]))
          => (PastVerification(t)
              <=> verify_webhook_signature(req[t].payload, req[t].signature,
                                           WEBHOOK_SECRET) = "true")
       /\ (/\ Answered(t)
           /\ AllHeaders(req[t])
           /\ CorrectlySigned(req[t])
           /\ IsEnvelope(BodyTable[req[t].payload])
           /\ req[t].delivery_id \notin Ledger0(t))
          => /\ called[t]
             /\ resp[t] = Response(200, "success")

\* The body "ok" with its signature was accepted under identifier 1 (the
\* handler ran for 1, which in these runs no other body brings about) and,
\* sent again under identifier 2 and another event, ran the handler again.
C27_Witness ==
    \E t \in Threads :
       /\ Answered(t)
       /\ req[t].payload = "ok"
       /\ CorrectlySigned(req[t])
       /\ req[t].delivery_id = 2
       /\ req[t].event = "custom.event"
       /\ invoked[1] = 1
       /\ invoked[2] = 1
       /\ called[t]
       /\ resp[t] = Response(200, "success")

(* -------------------------------- C28 ---------------------------------- *)

\* C28: the branch of process_webhook_event that runs is the one of the
\* X-Webhook-Event header, whatever the 'event' member of the body: a
\* request that passed every check and reached the handler ran the header's
\* branch, with that branch's outcome, and was answered 'success'.
C28_DispatchByHeaderEvent ==
    \A t \in Threads :
       (Answered(t) /\ called[t])
       => /\ trail[t].branch = Branch(req[t].event)
          /\ trail[t].handler
                = process_webhook_event(req[t].event, data[t].member)
          /\ resp[t] = Response(200, "success")

\* The body says 'clip.approved' and its 'data' is a number, the header
\* says 'custom.event': the unknown-event branch ran and returned, where
\* the branch of the body's event would have raised.
C28_Witness ==
    \E t \in Threads :
       /\ Answered(t)
       /\ called[t]
       /\ req[t].event = "custom.event"
       /\ data[t].event = "clip.approved"
       /\ data[t].member = "number"
       /\ trail[t].branch = "unknown"
       /\ trail[t].handler = "returned"
       /\ resp[t] = Response(200, "success")

(* -------------------------------- C29 ---------------------------------- *)

\* C29: process_directory writes a file only when it is not index.md and
\* its content does not start with '---' and a newline; a file it wrote
\* holds the frontmatter block followed by what the file held before,
\* unchanged; a second run writes nothing; index.md is never changed.
C29_FrontmatterAddedOnce ==
    /\ \A f \in MdNames :
          <<1, f>> \in docs.updated
          => /\ f # "index.md"
             /\ ~has_frontmatter(ReadText(docs.original[f]))
             /\ docs.files[f] = Frontmatter \o docs.original[f]
    /\ \A f \in MdNames, p \in 2 .. MaxPasses : <<p, f>> \notin docs.updated
    /\ docs.files["index.md"] = docs.original["index.md"]

====
